---- MODULE Spec2Model ----
(***************************************************************************)
(* A model of os_doc_tools/dn2osdbk.py: the conversion of DocUtils native  *)
(* XML to docbook, for one file (XMLFileTransformer) and for a directory   *)
(* with an index (BookTransformer, ChapterTransformer).                    *)
(*                                                                         *)
(* Python strings are TLA+ strings, read as sequences of characters with   *)
(* Len, SubSeq and \o.  An optional value (None or a value) is the empty   *)
(* sequence or a one-element sequence.  An XML tree is the sequence of its *)
(* nodes in document order, each naming its parent's position (0 for the   *)
(* root); an element's attributes are a function from names to values.     *)
(***************************************************************************)
EXTENDS Integers, Sequences, FiniteSets, TLC

\* ------------------------------------------------------------------ bounds

\* The most pieces of an identifier attribute value of a single-file run.
MaxPieces == 3
\* The most reference elements of a source index.
MaxRefs == 3

\* --------------------------------------------------------------- constants

XML_NS == "{http://www.w3.org/XML/1998/namespace}"
DOCBOOK_NS == "{http://docbook.org/ns/docbook}"
WARNING == "WARNING: This file is automatically generated. Do not edit it."
TRANSFORMERS == [chapter |-> "ChapterTransformer", book |-> "BookTransformer"]

None == << >>
Some(v) == << v >>

\* ----------------------------------------------------------------- strings

Char(s, i) == SubSeq(s, i, i)

\* s.endswith(suffix)
EndsWith(s, suffix) ==
    /\ Len(s) >= Len(suffix)
    /\ SubSeq(s, Len(s) - Len(suffix) + 1, Len(s)) = suffix

\* c in s, for a one-character c
Contains(s, c) == \E i \in 1..Len(s) : Char(s, i) = c

\* s.split(' '): the pieces between single spaces, empty pieces kept.
RECURSIVE Split(_)
Split(s) ==
    IF Contains(s, " ")
    THEN LET i == CHOOSE k \in 1..Len(s) :
                      /\ Char(s, k) = " "
                      /\ \A j \in 1..(k - 1) : Char(s, j) # " "
         IN  << SubSeq(s, 1, i - 1) >> \o Split(SubSeq(s, i + 1, Len(s)))
    ELSE << s >>

Digit == {"0", "1", "2", "3", "4", "5", "6", "7", "8", "9"}

\* re.match(r'id\d+', s): the pattern matches at the start of s; what follows
\* the first digit is not looked at.
ReMatchId(s) ==
    /\ Len(s) >= 3
    /\ SubSeq(s, 1, 2) = "id"
    /\ Char(s, 3) \in Digit

\* ------------------------------------------------- XMLFileTransformer

id_attrib == XML_NS \o "id"

\* item.get(name)
Get(item, name) ==
    IF name \in DOMAIN item.attrib THEN Some(item.attrib[name]) ELSE None

\* Lines 72-79: the choice among the space-separated ids.  (ChooseIdRest is the
\* slip id_list[1:] for id_list[-1].)
ChooseIdRest(xml_id) ==
    LET id_list == Split(xml_id)
    IN  IF Len(id_list) > 1 /\ ReMatchId(id_list[Len(id_list)])
        THEN id_list[1]
        ELSE SubSeq(xml_id, IF Len(id_list) > 1 THEN Len(id_list[1]) + 2 ELSE 1,
                    Len(xml_id))

ChooseId(xml_id) ==
    LET id_list == Split(xml_id)
    IN  IF Len(id_list) > 1 /\ ReMatchId(id_list[Len(id_list)])
        THEN id_list[1]
        ELSE id_list[Len(id_list)]

\* Lines 69-81, for one item of tree.iter().  (NormalizeItemAlways is the slip
\* of assigning the attribute outside the test for None.)
NormalizeItemAlways(item) ==
    LET xml_id == Get(item, id_attrib)
    IN  [item EXCEPT !.attrib =
            (id_attrib :> (IF xml_id # None THEN ChooseId(xml_id[1]) ELSE ""))
                @@ item.attrib]

NormalizeItem(item) ==
    LET xml_id == Get(item, id_attrib)
    IN  IF xml_id # None
        THEN [item EXCEPT !.attrib[id_attrib] = ChooseId(xml_id[1])]
        ELSE item

\* Lines 66-81: the pass over every node of the tree.
NormalizeIds(tree) == [k \in DOMAIN tree |-> NormalizeItem(tree[k])]

Comment(text, parent) ==
    [kind |-> "comment", tag |-> "", text |-> text, parent |-> parent,
     attrib |-> << >>]

Element(tag, text, parent, attrib) ==
    [kind |-> "element", tag |-> tag, text |-> text, parent |-> parent,
     attrib |-> attrib]

\* root.insert(index, comment), for index 0 (before the first child) and for
\* the append a slip would make of it.
InsertInRoot(tree, node) ==
    << tree[1] >> \o << node >> \o
    [k \in 1..(Len(tree) - 1) |->
        [tree[k + 1] EXCEPT !.parent = IF @ = 1 THEN 1 ELSE @ + 1]]

AppendToRoot(tree, node) == Append(tree, node)

InsertComment(tree, node) == InsertInRoot(tree, node)

\* Lines 57-64: the root tag and the warning comment.
RetagRoot(tree, toplevel) ==
    InsertComment([tree EXCEPT ![1].tag = DOCBOOK_NS \o toplevel],
                  Comment(WARNING, 1))

\* Lines 56-83.
CustomTransform(tree, toplevel) == NormalizeIds(RetagRoot(tree, toplevel))

\* The result of a call: a value, or the exception it raises.
Return(v) == [exc |-> "", value |-> v]
Raise(e) == [exc |-> e, value |-> << >>]

\* ------------------------------------------------- BaseFolderTransformer

\* os.path.join(a, b), b relative.
Join(a, b) ==
    IF a = "" THEN b
    ELSE IF EndsWith(a, "/") THEN a \o b
    ELSE a \o "/" \o b

\* os.path.basename(p)
RECURSIVE Basename(_)
Basename(p) ==
    IF Contains(p, "/")
    THEN Basename(SubSeq(p, (CHOOSE k \in 1..Len(p) : Char(p, k) = "/"
                                /\ \A j \in 1..(k - 1) : Char(p, j) # "/") + 1,
                         Len(p)))
    ELSE p

\* glob.glob(os.path.join(source_dir, '*.xml')) over the names of the
\* directory: the names '*.xml' matches, each joined to the directory as it
\* was written.  The list's order is the operating system's.
Glob(source_dir, names) ==
    { Join(source_dir, n) : n \in { m \in names :
                                      EndsWith(m, ".xml") /\ Char(m, 1) # "." } }

file_toplevel(cls) == IF cls = "BookTransformer" THEN "chapter" ELSE "section"

\* Lines 127-132: the loop over the reference elements.  (IncludesNoSkip
\* forgets the test for '#'.)
RECURSIVE IncludesNoSkip(_, _)
IncludesNoSkip(tag, refs) ==
    IF refs = << >> THEN << >>
    ELSE << tag \o "_" \o Head(refs)[1] \o ".xml" >>
            \o IncludesNoSkip(tag, Tail(refs))

RECURSIVE IncludesLoop(_, _)
IncludesLoop(tag, refs) ==
    IF refs = << >> THEN << >>
    ELSE IF Contains(Head(refs)[1], "#") THEN IncludesLoop(tag, Tail(refs))
    ELSE << tag \o "_" \o Head(refs)[1] \o ".xml" >>
            \o IncludesLoop(tag, Tail(refs))

Includes(tag, refs) == IncludesLoop(tag, refs)

\* Lines 120-134.  The index file is a record: state (missing, malformed or
\* ok), refs (the refuri, or None, of each reference element in document
\* order) and title (None without a section/title element, else its text,
\* itself None for an empty element).
parse_index(cls, index_xml) ==
    IF index_xml.state = "missing" THEN Raise("IOError")
    ELSE IF index_xml.state = "malformed" THEN Raise("XMLSyntaxError")
    ELSE IF \E i \in 1..Len(index_xml.refs) : index_xml.refs[i] = None
    THEN Raise("TypeError")
    ELSE IF index_xml.title = None THEN Raise("AttributeError")
    ELSE Return([includes |-> Includes(file_toplevel(cls), index_xml.refs),
                 title |-> index_xml.title[1]])

\* Lines 101-118.  (folder_init_mkdir_first creates the output directory
\* before it parses the index.)
folder_init_mkdir_first(cls, index_xml, dir_exists) ==
    LET r == parse_index(cls, index_xml)
    IN  IF r.exc # ""
        THEN [exc |-> r.exc, includes |-> << >>, title |-> None,
              out_dir_exists |-> TRUE]
        ELSE [exc |-> "", includes |-> r.value.includes,
              title |-> r.value.title, out_dir_exists |-> TRUE]

folder_init(cls, index_xml, dir_exists) ==
    LET r == parse_index(cls, index_xml)
    IN  IF r.exc # ""
        THEN [exc |-> r.exc, includes |-> << >>, title |-> None,
              out_dir_exists |-> dir_exists]
        ELSE [exc |-> "", includes |-> r.value.includes,
              title |-> r.value.title, out_dir_exists |-> TRUE]

\* Lines 149-153: one file of the loop, given what the stylesheet makes of
\* it (a tree, or None when the file does not parse or the stylesheet
\* fails).  The serialized document is kept as its tree.
\* (convert_file_skip passes over a file that fails.)
convert_file_skip(cls, src, xslt_result, files) ==
    IF xslt_result = None THEN Return(files)
    ELSE Return(((file_toplevel(cls) \o "_" \o Basename(src))
                    :> CustomTransform(xslt_result[1], file_toplevel(cls)))
                @@ files)

convert_file(cls, src, xslt_result, files) ==
    IF xslt_result = None THEN Raise("XMLSyntaxError")
    ELSE Return(((file_toplevel(cls) \o "_" \o Basename(src))
                    :> CustomTransform(xslt_result[1], file_toplevel(cls)))
                @@ files)

\* --------------------------------------- BookTransformer, ChapterTransformer

UPPERCASE == "ABCDEFGHIJKLMNOPQRSTUVWXYZ"
LOWERCASE == "abcdefghijklmnopqrstuvwxyz"

\* s.lower()
RECURSIVE Lower(_)
Lower(s) ==
    IF s = "" THEN ""
    ELSE LET c == Char(s, 1)
         IN  (IF Contains(UPPERCASE, c)
              THEN Char(LOWERCASE, CHOOSE i \in 1..Len(UPPERCASE) :
                                       Char(UPPERCASE, i) = c)
              ELSE c) \o Lower(SubSeq(s, 2, Len(s)))

\* s.replace(old, new), old and new one character each.
RECURSIVE Replace(_, _, _)
Replace(s, old, new) ==
    IF s = "" THEN ""
    ELSE (IF Char(s, 1) = old THEN new ELSE Char(s, 1))
            \o Replace(SubSeq(s, 2, Len(s)), old, new)

XI_NS == "{http://www.w3.org/2001/XInclude}"

\* The conversion types of Python's % formatting.
ConversionTypes ==
    {"d", "i", "o", "u", "x", "X", "e", "E", "f", "F", "g", "G", "c", "r",
     "s", "a", "%"}

\* Lines 167-181 and 196-208: the template, as its root tag and the
\* character that follows each %(key) of it, in the template's order.
Template(cls) ==
    IF cls = "BookTransformer"
    THEN [root |-> "book",
          keys |-> << [key |-> "xml_id", conv |-> "s"],
                      [key |-> "title", conv |-> "s"],
                      [key |-> "includes", conv |-> "s"] >>]
    ELSE [root |-> "chapter",
          keys |-> << [key |-> "xml_id", conv |-> "s"],
                      [key |-> "title", conv |-> "<"],
                      [key |-> "includes", conv |-> "s"] >>]

\* template % values: ValueError at a %(key) that no conversion type
\* follows, else the document the text is: the root with its identifier,
\* then the warning comment, the title and the includes.
PercentFormat(template, values) ==
    IF \E i \in 1..Len(template.keys) :
           template.keys[i].conv \notin ConversionTypes
    THEN Raise("ValueError")
    ELSE Return(<< Element(DOCBOOK_NS \o template.root, "", 0,
                           (id_attrib :> values.xml_id) @@ [version |-> "5.0"]),
                   Comment(" " \o WARNING \o " ", 1),
                   Element(DOCBOOK_NS \o "title", values.title, 1, << >>) >>
                \o values.includes)

\* Lines 161-183 and 190-210, up to the write.
write_index(cls, title_, includes_) ==
    IF title_ = None THEN Raise("AttributeError")
    ELSE PercentFormat(Template(cls),
            [xml_id |-> Replace(Lower(title_[1]), " ", "-"),
             title |-> title_[1],
             includes |-> [k \in 1..Len(includes_) |->
                              Element(XI_NS \o "include", "", 1,
                                      [href |-> includes_[k]])]])

\* ------------------------------------------------------------ the inputs

\* The values of an identifier attribute: up to n pieces, a separator
\* between each two.  The empty piece gives the leading, trailing and
\* repeated separators.
Pieces == {"", "d", "id", "id1", "id1d"}
Separators == {" ", "\t"}

RECURSIVE IdValues(_)
IdValues(n) ==
    IF n <= 1 THEN Pieces
    ELSE LET S == IdValues(n - 1)
         IN  S \cup { s \o c \o p : s \in S, c \in Separators, p \in Pieces }

\* What the stylesheet gives for a source file: a tree of elements, here
\* with the identifier value v on the root or on a child.
TreeIdOnRoot(v) ==
    << Element("section", "", 0, (id_attrib :> v)),
       Element("title", "T", 1, << >>) >>

TreeIdOnChild(v) ==
    << Element("section", "", 0, [role |-> "r"]),
       Element("para", "", 1, (id_attrib :> v) @@ [role |-> "p"]),
       Element("emphasis", "e", 2, (id_attrib :> "x")) >>

XsltResultsOfFile ==
    {None} \cup { Some(TreeIdOnRoot(v)) : v \in IdValues(MaxPieces) }
           \cup { Some(TreeIdOnChild(v)) : v \in IdValues(MaxPieces) }

XsltResultsInFolder ==
    {None, Some(TreeIdOnChild("intro id1"))}

\* The refuri of a reference element: a document, an anchor in a document,
\* or no refuri attribute.
RefUris == {Some("foo"), Some("bar"), Some("foo#s1"), None}

RECURSIVE SeqsUpTo(_, _)
SeqsUpTo(S, n) ==
    IF n = 0 THEN {<< >>}
    ELSE LET R == SeqsUpTo(S, n - 1)
         IN  R \cup { Append(r, x) : r \in R, x \in S }

IndexFiles ==
    { [state |-> "missing", refs |-> << >>, title |-> None],
      [state |-> "malformed", refs |-> << >>, title |-> None] }
    \cup { [state |-> "ok", refs |-> r, title |-> t] :
             r \in SeqsUpTo(RefUris, MaxRefs),
             t \in {None, Some(None), Some(Some("Release Notes"))} }

\* The names a source directory holds beside index.xml.
OtherNames == {"foo.xml", "bar.xml", "notes.txt"}

\* os.path.isdir(path), for the source paths of the model.
IsDir(path) == path \in {"doc", "doc/"}

\* The most passes of the identifier normalization over one tree.
MaxPasses == 2

\* ----------------------------------------------------------------- state

VARIABLES
    caller,          \* "main" (the command line) or "library" (the classes)
    cls,             \* the transformer class the run uses
    toplevel,        \* args.toplevel
    source,          \* args.source / source_dir, as written
    index_xml,       \* the source directory's index.xml
    src_names,       \* the other names of the source directory
    out_dir_existed, \* whether the output directory was there before the run
    out_dir_exists,  \* whether it is there now
    out,             \* the files the run has written: name -> document
    pc,              \* where the run is
    exc,             \* the exception that ended it, "" for none
    includes,        \* self.includes
    title,           \* self.title
    todo,            \* the files of the glob the loop has not reached
    converted,       \* the files handed to XMLFileTransformer, in order
    tree,            \* single file: the tree of the document
    pre,             \* single file: the tree as each pass found it
    passes           \* single file: the passes made over the tree

vars == << caller, cls, toplevel, source, index_xml, src_names,
           out_dir_existed, out_dir_exists, out, pc, exc, includes, title,
           todo, converted, tree, pre, passes >>

fs_vars == << index_xml, src_names, out_dir_existed >>
arg_vars == << caller, cls, toplevel, source >>
folder_vars == << includes, title, todo, converted >>
file_vars == << tree, pre, passes >>

NoFiles == [n \in {} |-> << >>]

\* Lines 213-228 (and a library's own construction of a folder
\* transformer): the arguments and the file system the run starts from.
InitFolder ==
    /\ caller \in {"main", "library"}
    /\ toplevel \in {"book", "chapter"}
    /\ cls = TRANSFORMERS[toplevel]
    /\ source \in IF caller = "main" THEN {"doc", "doc/"} ELSE {""}
    /\ caller = "main" => IsDir(source)
    /\ index_xml \in IndexFiles
    /\ src_names \in SUBSET OtherNames
    /\ out_dir_existed \in BOOLEAN

InitFile ==
    /\ caller = "main"
    /\ toplevel \in {"book", "chapter"}
    /\ cls = "XMLFileTransformer"
    /\ source = "doc.xml"
    /\ ~IsDir(source)
    /\ index_xml = [state |-> "missing", refs |-> << >>, title |-> None]
    /\ src_names = {"doc.xml"}
    /\ out_dir_existed = TRUE

Init ==
    /\ InitFolder \/ InitFile
    /\ out_dir_exists = out_dir_existed
    /\ out = NoFiles
    /\ pc = "new"
    /\ exc = ""
    /\ includes = << >>
    /\ title = None
    /\ todo = {}
    /\ converted = << >>
    /\ tree = << >>
    /\ pre = << >>
    /\ passes = 0

\* --------------------------------------------------------------- actions

\* Lines 101-118: cls(args.source, args.output).
Construct ==
    /\ pc = "new"
    /\ cls # "XMLFileTransformer"
    /\ LET r == folder_init(cls, index_xml, out_dir_exists)
       IN  /\ includes' = r.includes
           /\ title' = r.title
           /\ out_dir_exists' = r.out_dir_exists
           /\ exc' = r.exc
           /\ pc' = IF r.exc # "" THEN "failed_init" ELSE "constructed"
    /\ UNCHANGED << fs_vars, arg_vars, file_vars, out, todo, converted >>

\* Line 145: the glob.  The loop takes the files in the order the operating
\* system lists them, which is any order.
TransformStart ==
    /\ pc = "constructed"
    /\ todo' = Glob(source, src_names \cup {"index.xml"})
    /\ pc' = "loop"
    /\ UNCHANGED << fs_vars, arg_vars, file_vars, out, out_dir_exists, exc,
                    includes, title, converted >>

\* Lines 146-153: one turn of the loop, over the index file.
SkipIndex ==
    /\ pc = "loop"
    /\ \E src \in todo :
          /\ EndsWith(src, "/index.xml")
          /\ todo' = todo \ {src}
    /\ UNCHANGED << fs_vars, arg_vars, file_vars, out, out_dir_exists, exc,
                    includes, title, converted, pc >>

\* Lines 146-153: one turn of the loop, over any other file.
ConvertNext ==
    /\ pc = "loop"
    /\ \E src \in todo, xslt_result \in XsltResultsInFolder :
          /\ ~EndsWith(src, "/index.xml")
          /\ todo' = todo \ {src}
          /\ converted' = Append(converted,
                                 [src |-> src, ok |-> xslt_result # None])
          /\ LET r == convert_file(cls, src, xslt_result, out)
             IN  /\ exc' = r.exc
                 /\ pc' = IF r.exc # "" THEN "failed_convert" ELSE "loop"
                 /\ out' = IF r.exc # "" THEN out ELSE r.value
    /\ UNCHANGED << fs_vars, arg_vars, file_vars, out_dir_exists, includes,
                    title >>

\* Line 154, and line 226: the index, then sys.exit.
WriteIndex ==
    /\ pc = "loop"
    /\ todo = {}
    /\ LET r == write_index(cls, title, includes)
       IN  /\ exc' = r.exc
           /\ pc' = IF r.exc # "" THEN "failed_index" ELSE "exit"
           /\ out' = IF r.exc # "" THEN out ELSE ("index.xml" :> r.value) @@ out
    /\ UNCHANGED << fs_vars, arg_vars, file_vars, out_dir_exists, includes,
                    title, todo, converted >>

\* Lines 85-94 and 228-229: XMLFileTransformer(source, toplevel).transform().
FileTransform ==
    /\ pc = "new"
    /\ cls = "XMLFileTransformer"
    /\ \E xslt_result \in XsltResultsOfFile :
          IF xslt_result = None
          THEN /\ pc' = "failed_file"
               /\ exc' = "XMLSyntaxError"
               /\ UNCHANGED file_vars
          ELSE /\ pc' = "transformed"
               /\ exc' = ""
               /\ pre' = << RetagRoot(xslt_result[1], toplevel) >>
               /\ tree' = CustomTransform(xslt_result[1], toplevel)
               /\ passes' = 1
    /\ UNCHANGED << fs_vars, arg_vars, folder_vars, out, out_dir_exists >>

\* Lines 230-232: the output file, then sys.exit(0).
FileWrite ==
    /\ pc = "transformed"
    /\ out' = ("out.xml" :> tree) @@ out
    /\ pc' = "exit"
    /\ UNCHANGED << fs_vars, arg_vars, folder_vars, file_vars, out_dir_exists,
                    exc >>

\* Lines 66-81 once more over the tree of the document.
NormalizeAgain ==
    /\ pc = "exit"
    /\ cls = "XMLFileTransformer"
    /\ passes < MaxPasses
    /\ pre' = Append(pre, tree)
    /\ tree' = NormalizeIds(tree)
    /\ passes' = passes + 1
    /\ UNCHANGED << fs_vars, arg_vars, folder_vars, out, out_dir_exists, pc,
                    exc >>

Next ==
    \/ Construct
    \/ TransformStart
    \/ SkipIndex
    \/ ConvertNext
    \/ WriteIndex
    \/ FileTransform
    \/ FileWrite
    \/ NormalizeAgain

Spec == Init /\ [][Next]_vars

\* ---------------------------------------------------------------- claims

Whitespace == {" ", "\t"}

\* A value's tokens are well separated: one space between each two, no
\* other whitespace, none empty.
WellSeparated(v) ==
    /\ \A i \in 1..Len(v) : Char(v, i) # "\t"
    /\ \A i \in 1..Len(Split(v)) : Split(v)[i] # ""

\* An auto-generated marker: the letters id, then digits only, one at least.
IsMarker(t) ==
    /\ Len(t) >= 3
    /\ SubSeq(t, 1, 2) = "id"
    /\ \A i \in 3..Len(t) : Char(t, i) \in Digit

RuleChoice(tokens) ==
    IF Len(tokens) = 1 THEN tokens[1]
    ELSE IF IsMarker(tokens[Len(tokens)]) THEN tokens[1]
    ELSE tokens[Len(tokens)]

HasId(node) == id_attrib \in DOMAIN node.attrib
IdOf(node) == node.attrib[id_attrib]

\* C1: after a pass, every identifier attribute that held the tokens
\* t1..tn holds t1 when n = 1, t1 when n > 1 and tn is a marker (id, then
\* digits), and tn otherwise.
C1_TokenRule ==
    passes >= 1 =>
        \A k \in DOMAIN tree :
            (HasId(pre[passes][k]) /\ WellSeparated(IdOf(pre[passes][k])))
                => IdOf(tree[k]) = RuleChoice(Split(IdOf(pre[passes][k])))

\* C5: a second pass of the identifier normalization leaves the tree as the
\* first pass left it.
C5_Idempotent == passes >= 2 => tree = pre[2]

C5_Witness ==
    /\ passes = 2
    /\ pre[1] # pre[2]
    /\ \E k \in DOMAIN tree : HasId(tree[k]) /\ IdOf(pre[1][k]) = "d d id1"

\* C7: after a pass, every identifier attribute that held a list of one or
\* more tokens, however separated, holds a non-empty value with no
\* whitespace in it.
C7_SingleToken ==
    passes >= 1 =>
        \A k \in DOMAIN tree :
            (/\ HasId(pre[passes][k])
             /\ \E i \in 1..Len(IdOf(pre[passes][k])) :
                    Char(IdOf(pre[passes][k]), i) \notin Whitespace)
                => /\ IdOf(tree[k]) # ""
                   /\ \A i \in 1..Len(IdOf(tree[k])) :
                          Char(IdOf(tree[k]), i) \notin Whitespace

\* C9: a pass changes nothing but the values of the identifier attributes
\* that are there: the nodes, their order, nesting, tags, text and other
\* attributes stay, and no node gains an identifier.
SameButIdValues(before, after) ==
    /\ Len(after) = Len(before)
    /\ \A k \in DOMAIN before :
          /\ after[k].kind = before[k].kind
          /\ after[k].tag = before[k].tag
          /\ after[k].text = before[k].text
          /\ after[k].parent = before[k].parent
          /\ DOMAIN after[k].attrib = DOMAIN before[k].attrib
          /\ \A a \in DOMAIN before[k].attrib \ {id_attrib} :
                after[k].attrib[a] = before[k].attrib[a]

C9_Frame == passes >= 1 => SameButIdValues(pre[passes], tree)

C9_Witness ==
    /\ passes = 1
    /\ tree # pre[1]
    /\ \E k \in DOMAIN tree : ~HasId(tree[k]) /\ tree[k].kind = "element"
    /\ \E k \in DOMAIN tree : HasId(tree[k]) /\ "role" \in DOMAIN tree[k].attrib

\* The refuri of the references that name a document, in the index's order.
DocumentRefs ==
    SelectSeq(index_xml.refs,
              LAMBDA r : \A i \in 1..Len(r[1]) : Char(r[1], i) # "#")

ExpectedIncludes ==
    [k \in 1..Len(DocumentRefs) |->
        file_toplevel(cls) \o "_" \o DocumentRefs[k][1] \o ".xml"]

IncludeNodes(doc) == SelectSeq(doc, LAMBDA n : n.tag = XI_NS \o "include")

\* C3: the includes of a folder transformer, and the XInclude entries of
\* the index it writes, are the references without '#' in their refuri, in
\* the source index's order, each as <file-tag>_<refuri>.xml.
C3_IncludesInOrder ==
    /\ pc \in {"constructed", "loop", "exit", "failed_convert", "failed_index"}
          => includes = ExpectedIncludes
    /\ (cls # "XMLFileTransformer" /\ "index.xml" \in DOMAIN out)
          => [k \in 1..Len(IncludeNodes(out["index.xml"])) |->
                 IncludeNodes(out["index.xml"])[k].attrib["href"]]
             = ExpectedIncludes

C3_Witness ==
    /\ "index.xml" \in DOMAIN out
    /\ index_xml.refs = << Some("foo"), Some("foo#s1"), Some("bar") >>
    /\ Len(IncludeNodes(out["index.xml"])) = 2

Failed(c) == \E i \in 1..Len(c) : ~c[i].ok

\* C4: in a directory run, a failing file is the last one handed to the
\* converter, the run ends there, and an index is only written when every
\* file of the glob has been taken and none failed.
C4_IndexAfterAll ==
    cls # "XMLFileTransformer" =>
        /\ \A i \in 1..(Len(converted) - 1) : converted[i].ok
        /\ Failed(converted) =>
              pc = "failed_convert" /\ "index.xml" \notin DOMAIN out
        /\ "index.xml" \in DOMAIN out => todo = {} /\ ~Failed(converted)

C4_Witness ==
    /\ pc = "failed_convert"
    /\ Len(converted) = 2
    /\ todo # {}
    /\ "index.xml" \notin DOMAIN out

IsWarning(node) ==
    node.kind = "comment" /\ node.text \in {WARNING, " " \o WARNING \o " "}

\* C8: every file written holds one warning comment, the first child of
\* the root.
C8_OneWarningFirst ==
    \A n \in DOMAIN out :
        /\ Cardinality({k \in DOMAIN out[n] : IsWarning(out[n][k])}) = 1
        /\ Len(out[n]) >= 2
        /\ IsWarning(out[n][2])
        /\ out[n][2].parent = 1

C8_Witness ==
    /\ "index.xml" \in DOMAIN out
    /\ "chapter_foo.xml" \in DOMAIN out
    /\ Len(out["index.xml"]) > 3

IndexUnusable == index_xml.state # "ok" \/ index_xml.title = None

\* C10: with an index that is missing, malformed or without a
\* section/title element, the construction fails, the output directory is
\* as it was and no file is written.
C10_NoOutputOnBadIndex ==
    (cls # "XMLFileTransformer" /\ IndexUnusable) =>
        /\ pc \in {"new", "failed_init"}
        /\ out_dir_exists = out_dir_existed
        /\ out = NoFiles

C10_Witness ==
    /\ pc = "failed_init"
    /\ index_xml.state = "ok"
    /\ index_xml.title = None
    /\ exc = "AttributeError"
    /\ ~out_dir_existed

XmlNames == { n \in src_names : EndsWith(n, ".xml") }

TimesConverted(name) ==
    Cardinality({ i \in 1..Len(converted) : Basename(converted[i].src) = name })

C2_OutputFiles ==
    (/\ caller = "main"
     /\ cls \in {"BookTransformer", "ChapterTransformer"}
     /\ pc \in {"exit", "failed_index"}
     /\ title # None)
        => DOMAIN out = { file_toplevel(cls) \o "_" \o n : n \in XmlNames }
                            \cup {"index.xml"}

====
